---- MODULE Spec2Model ----
(***************************************************************************)
(* Session/connection coordination and tool-call orchestration of the      *)
(* Shopping Assistant web server (src/web-interface/server_app.py).        *)
(*                                                                         *)
(* One action per Socket.IO handler or per resumption of a suspended       *)
(* handle_send_message green thread.  Under eventlet a handler runs        *)
(* without interruption until it blocks (time.sleep, a network read), so   *)
(* each action is the code between two such points.                        *)
(***************************************************************************)
EXTENDS Integers, Sequences, FiniteSets, TLC

\* ------------------------------------------------------------------ bounds
MaxRuns == 2       \* handle_send_message threads a behaviour may start
MaxSends == 1      \* send_message calls accepted in one behaviour
MaxChunks == 1     \* text chunks streamed (by the completion or the driver)
MaxTools == 2      \* tool calls proposed by the completion in one behaviour
MaxToolCalls == 2  \* tool calls proposed by one completion response
MaxPings == 1      \* test_ping calls in one behaviour
MaxQueryLen == 4   \* characters of an execute_serper_search query
MaxOrganic == 5    \* organic results one upstream search returns

\* program constants
max_loops == 5     \* server_app.py:559
organic_limit == 4 \* server_app.py:373

Sessions == {"s1", "s2"}
WebSidSeq == <<"w1", "w2">>
WebSids == {WebSidSeq[i] : i \in 1..Len(WebSidSeq)}      \* connections of observers
ExtSids == {"e1", "e2"}      \* connections of drivers
Sids == WebSids \cup ExtSids
Runs == 1..MaxRuns
Texts == {"", "hi"}          \* text of a send_message
Chunks == {"a"}              \* text chunks of a completion stream
DriverChunks == Chunks \cup {"__CLEAR__"}
ToolNames == {"serper_search", "search_shopee"}
DriverTools == {"search_shopee"}   \* tools a driver reports on
Results == {"ok", "error"}   \* a tool result without / with an 'error' key
Broadcast == "*"

\* correlation ids (uuid4 in the code): unique per dispatch
AiRid(r) == 10 * r
ToolRid(r, k) == 10 * r + k
PingRid(n) == 100 + n
Rids == {0} \cup {AiRid(r) : r \in Runs} \cup {ToolRid(r, k) : r \in Runs, k \in 1..max_loops}

VARIABLES
    GEMINI_API_KEY,         \* config.GEMINI_API_KEY ("" = not configured)
    SERPER_API_KEY,         \* config.SERPER_API_KEY
    web_clients,            \* manager.web_clients: sid -> session_id
    extensions,             \* manager.extensions: the keys, in insertion order
    conversations,          \* manager.conversations: session_id -> record
    pending_tool_requests,  \* request_id -> {session_id, result, completed}
    pending_ai_requests,    \* request_id -> {session_id, web_client_sid, result, completed}
    pending_pings,          \* request_id -> {web_client_sid}
    held,                   \* the locks the last handler step held while it emitted
    serper,                 \* an execute_serper_search call: its input, position and output
    run,                    \* the handle_send_message green threads
    budget,                 \* what the environment may still do: sends, chunks, tools, pings
    emitted                 \* the events the last handler step sent

vars == <<GEMINI_API_KEY, SERPER_API_KEY, web_clients, extensions, conversations,
          pending_tool_requests, pending_ai_requests, pending_pings, held, serper, run,
          budget, emitted>>

\* --------------------------------------------------------- conversation store
\* A session record is a Python dict: keys is the set of keys it has; a read of
\* a key it lacks raises KeyError.  Fields of absent keys are kept at a fixed
\* value.  progress is {} for None and {p} for a snapshot p.
AllKeys == {"messages", "processing", "current_response", "progress", "last_activity"}

FullConv ==
    [keys |-> AllKeys, messages |-> <<>>, processing |-> FALSE,
     current_response |-> "", progress |-> {}]

PartialConv ==
    [keys |-> {"messages", "processing"}, messages |-> <<>>, processing |-> FALSE,
     current_response |-> "", progress |-> {}]

Message(role, content, parts) == [role |-> role, content |-> content, parts |-> parts]

Ev(to, name, data) == [to |-> to, name |-> name, data |-> data]

NoData == [none |-> TRUE]

add_web_client(C, session_id) ==
    IF session_id \in DOMAIN C THEN C ELSE C @@ (session_id :> PartialConv)

get_conversation(C, session_id) ==
    IF session_id \in DOMAIN C THEN C ELSE C @@ (session_id :> FullConv)

add_message(C, session_id, msg) ==
    LET C1 == get_conversation(C, session_id)
    IN  [C1 EXCEPT ![session_id].messages = Append(@, msg),
                   ![session_id].keys = @ \cup {"last_activity"}]

\* [raised, C]: raised when conv['current_response'] += chunk hits a missing key
append_stream_chunk(C, session_id, chunk) ==
    LET C1 == get_conversation(C, session_id)
    IN  IF chunk = "__CLEAR__"
        THEN [raised |-> FALSE,
              C |-> [C1 EXCEPT ![session_id].current_response = "",
                               ![session_id].keys = @ \cup {"current_response", "last_activity"}]]
        ELSE IF "current_response" \notin C1[session_id].keys
        THEN [raised |-> TRUE, C |-> C1]
        ELSE [raised |-> FALSE,
              C |-> [C1 EXCEPT ![session_id].current_response = @ \o chunk,
                               ![session_id].keys = @ \cup {"last_activity"}]]

finalize_response(C, session_id) ==
    LET C1 == get_conversation(C, session_id)
        C2 == IF C1[session_id].current_response # ""
              THEN [add_message(C1, session_id,
                                Message("assistant", C1[session_id].current_response, <<>>))
                    EXCEPT ![session_id].current_response = ""]
              ELSE C1
    IN  IF "current_response" \notin C1[session_id].keys
        THEN [raised |-> TRUE, C |-> C1]
        ELSE [raised |-> FALSE,
              C |-> [C2 EXCEPT ![session_id].processing = FALSE,
                               ![session_id].progress = {},
                               ![session_id].keys = @ \cup {"progress"}]]

update_progress(C, session_id, tool_name, current, total, url) ==
    LET C1 == get_conversation(C, session_id)
    IN  [C1 EXCEPT ![session_id].progress =
                       {[tool |-> tool_name, current |-> current, total |-> total, url |-> url]},
                   ![session_id].keys = @ \cup {"progress", "last_activity"}]

clear_conversation(C, session_id) ==
    IF session_id \in DOMAIN C THEN [C EXCEPT ![session_id] = FullConv] ELSE C

has_extension_Always == TRUE

has_extension == Len(extensions) > 0

get_active_extension_Last ==
    IF Len(extensions) > 0 THEN extensions[Len(extensions)] ELSE "None"

\* the key inserted first among those the dict holds
get_active_extension == IF Len(extensions) > 0 THEN extensions[1] ELSE "None"

SeqRemove(s, x) == SelectSeq(s, LAMBDA y : y # x)

InSeq(s, x) == \E i \in 1..Len(s) : s[i] = x

\* ----------------------------------------------------------------- threads
\* no execute_serper_search call under observation
IdleSerper == [pc |-> "idle"]

\* locks: the locks the thread holds while it is suspended
IdleRun ==
    [pc |-> "idle", session_id |-> "", sid |-> "", conv_live |-> FALSE, locks |-> {},
     loop_count |-> 0, calls |-> 0, text |-> "", tool_calls |-> <<>>,
     starts |-> 0, ends |-> 0, errors |-> 0]

Active(r) == run[r].pc \notin {"idle", "done"}

SetProcessing_Never(C, r, v) == C

\* conv['processing'] = v by thread r: conv is the dict the thread obtained at
\* its start, which is the session's record unless clear_conversation has
\* replaced that record since (conv_live).
SetProcessing(C, r, v) ==
    IF run[r].conv_live THEN [C EXCEPT ![run[r].session_id].processing = v] ELSE C

\* the thread ends after nerr error events and nend stream_end events
Finished(rec, nerr, nend) ==
    [rec EXCEPT !.pc = "done", !.text = "", !.errors = @ + nerr, !.ends = @ + nend]

\* the state after start-up, for the configurations keys and an environment
\* that accepts sends send_message calls and streams chunks chunks and tools
\* tool calls
InitWith(keys, sends, chunks, tools) ==
    /\ GEMINI_API_KEY \in keys
    /\ SERPER_API_KEY \in {"", "key"}
    /\ (GEMINI_API_KEY = "" => SERPER_API_KEY = "")
    /\ web_clients = [w \in {} |-> ""]
    /\ extensions = <<>>
    /\ conversations = [s \in {} |-> FullConv]
    /\ pending_tool_requests = [q \in {} |-> 0]
    /\ pending_ai_requests = [q \in {} |-> 0]
    /\ pending_pings = [q \in {} |-> 0]
    /\ held = {}
    /\ serper = IdleSerper
    /\ run = [r \in Runs |-> IdleRun]
    /\ budget = [sends |-> sends, chunks |-> chunks, tools |-> tools, pings |-> MaxPings]
    /\ emitted = <<>>

Init == InitWith({"", "key"}, MaxSends, MaxChunks, MaxTools)

\* ----------------------------------------------------- connection handlers
handle_disconnect_Drops(sid) ==
    /\ web_clients' = [w \in DOMAIN web_clients \ {sid} |-> web_clients[w]]
    /\ extensions' = SeqRemove(extensions, sid)
    /\ conversations' = IF sid \in DOMAIN web_clients
                        THEN clear_conversation(conversations, web_clients[sid])
                        ELSE conversations
    /\ emitted' = <<>>
    /\ held' = {}
    /\ UNCHANGED <<GEMINI_API_KEY, SERPER_API_KEY, serper, pending_pings, pending_tool_requests,
                   pending_ai_requests, run, budget>>

handle_disconnect(sid) ==
    /\ web_clients' = [w \in DOMAIN web_clients \ {sid} |-> web_clients[w]]
    /\ extensions' = SeqRemove(extensions, sid)
    /\ emitted' = <<>>
    /\ held' = {}
    /\ UNCHANGED <<GEMINI_API_KEY, SERPER_API_KEY, serper, pending_pings, conversations, pending_tool_requests,
                   pending_ai_requests, run, budget>>

\* the events handle_register_web sends for record conv; the handler stops at
\* the first read of a missing key
RegisterReplay(sid, session_id, conv) ==
    LET e1 == <<Ev(sid, "registered",
                   [session_id |-> session_id, extension_connected |-> has_extension,
                    processing |-> conv.processing])>>
        e2 == IF conv.messages # <<>>
              THEN <<Ev(sid, "conversation_history", [messages |-> conv.messages])>>
              ELSE <<>>
        e3 == IF conv.current_response # ""
              THEN <<Ev(sid, "stream_chunk", [chunk |-> conv.current_response])>>
              ELSE <<>>
        e4 == IF conv.progress # {}
              THEN <<Ev(sid, "tool_progress", CHOOSE p \in conv.progress : TRUE)>>
              ELSE <<>>
    IN  IF ~conv.processing THEN e1 \o e2
        ELSE IF "current_response" \notin conv.keys THEN e1 \o e2
        ELSE IF "progress" \notin conv.keys THEN e1 \o e2 \o e3
        ELSE e1 \o e2 \o e3 \o e4

handle_register_web(sid, session_id) ==
    LET C1 == get_conversation(add_web_client(conversations, session_id), session_id)
    IN  /\ web_clients' = [w \in DOMAIN web_clients \cup {sid} |->
                              IF w = sid THEN session_id ELSE web_clients[w]]
        /\ conversations' = C1
        /\ emitted' = RegisterReplay(sid, session_id, C1[session_id])
        /\ held' = {}
        /\ UNCHANGED <<GEMINI_API_KEY, SERPER_API_KEY, serper, pending_pings, extensions, pending_tool_requests,
                       pending_ai_requests, run, budget>>

handle_register_extension(sid) ==
    /\ extensions' = IF InSeq(extensions, sid) THEN extensions ELSE Append(extensions, sid)
    /\ emitted' = <<Ev(Broadcast, "extension_status", [connected |-> TRUE]),
                    Ev(sid, "registered", [status |-> "ok"])>>
    /\ held' = {}
    /\ UNCHANGED <<GEMINI_API_KEY, SERPER_API_KEY, serper, pending_pings, web_clients, conversations,
                   pending_tool_requests, pending_ai_requests, run, budget>>

handle_clear(sid, session_id) ==
    /\ conversations' = clear_conversation(conversations, session_id)
    /\ run' = [r \in Runs |->
                  IF Active(r) /\ run[r].session_id = session_id
                     /\ session_id \in DOMAIN conversations
                  THEN [run[r] EXCEPT !.conv_live = FALSE] ELSE run[r]]
    /\ emitted' = <<Ev(sid, "conversation_cleared", NoData)>>
    /\ held' = {}
    /\ UNCHANGED <<GEMINI_API_KEY, SERPER_API_KEY, serper, pending_pings, web_clients, extensions,
                   pending_tool_requests, pending_ai_requests, budget>>

\* ---------------------------------------------------------------- test_ping
handle_test_ping(sid, session_id) ==
    LET rid == PingRid(budget.pings)
    IN  /\ budget.pings > 0
        /\ budget' = [budget EXCEPT !.pings = @ - 1]
        /\ IF ~has_extension
           THEN /\ emitted' = <<Ev(sid, "pong_response", [error |-> TRUE])>>
                /\ UNCHANGED pending_pings
           ELSE /\ pending_pings' = pending_pings @@ (rid :> [web_client_sid |-> sid])
                /\ emitted' = <<Ev(get_active_extension, "ping_from_server",
                                   [request_id |-> rid])>>
        /\ held' = {}
        /\ UNCHANGED <<GEMINI_API_KEY, SERPER_API_KEY, serper, web_clients, extensions, conversations,
                       pending_tool_requests, pending_ai_requests, run>>

handle_pong_from_extension(rid) ==
    /\ IF rid \in DOMAIN pending_pings
       THEN /\ pending_pings' = [q \in DOMAIN pending_pings \ {rid} |-> pending_pings[q]]
            /\ emitted' = <<Ev(pending_pings[rid].web_client_sid, "pong_response",
                               [error |-> FALSE])>>
       ELSE /\ emitted' = <<>>
            /\ UNCHANGED pending_pings
    /\ held' = {}
    /\ UNCHANGED <<GEMINI_API_KEY, SERPER_API_KEY, serper, web_clients, extensions, conversations,
                   pending_tool_requests, pending_ai_requests, run, budget>>

\* ------------------------------------------------------------ send_message
FreeRun == CHOOSE r \in Runs : run[r].pc = "idle" /\ \A q \in Runs : run[q].pc = "idle" => r <= q

\* lines 499-501: a send without text is dropped
SendBlocked(sid, session_id, text) ==
    /\ text = ""
    /\ emitted' = <<>>
    /\ UNCHANGED <<conversations, pending_ai_requests, run, budget>>

SendRejected_Queued(sid, session_id, text) ==
    LET C1 == get_conversation(conversations, session_id)
    IN  /\ text # ""
        /\ C1[session_id].processing
        /\ conversations' = add_message(C1, session_id, Message("user", text, <<>>))
        /\ emitted' = <<Ev(sid, "error", [message |-> "Already processing a message"])>>
        /\ UNCHANGED <<pending_ai_requests, run, budget>>

\* lines 503-506: a send on a session that is processing is refused
SendRejected(sid, session_id, text) ==
    LET C1 == get_conversation(conversations, session_id)
    IN  /\ text # ""
        /\ C1[session_id].processing
        /\ conversations' = C1
        /\ emitted' = <<Ev(sid, "error", [message |-> "Already processing a message"])>>
        /\ UNCHANGED <<pending_ai_requests, run, budget>>

NoDriverEvents_Silent(sid) == <<Ev(sid, "stream_end", NoData)>>

\* lines 522-526: what an accepted send is answered without credential and driver
NoDriverEvents(sid) ==
    <<Ev(sid, "error", [message |-> "No extension connected"]),
      Ev(sid, "stream_end", NoData)>>

\* lines 508-550: the send is accepted; the code up to its first suspension
SendAccepted(sid, session_id, text) ==
    LET C1 == get_conversation(conversations, session_id)
        r == FreeRun
        C2 == add_message([C1 EXCEPT ![session_id].processing = TRUE], session_id,
                          Message("user", text, <<>>))
        accepted == <<Ev(sid, "message_added", [role |-> "user", content |-> text]),
                      Ev(sid, "stream_start", NoData)>>
        rec == [IdleRun EXCEPT !.session_id = session_id, !.sid = sid,
                               !.conv_live = TRUE, !.starts = 1]
    IN  /\ text # ""
        /\ ~C1[session_id].processing
        /\ budget.sends > 0
        /\ budget' = [budget EXCEPT !.sends = @ - 1]
        /\ \/ /\ GEMINI_API_KEY = ""
              /\ ~has_extension
              /\ conversations' = [C2 EXCEPT ![session_id].processing = FALSE]
              /\ run' = [run EXCEPT ![r] = Finished(rec, 1, 1)]
              /\ emitted' = accepted \o NoDriverEvents(sid)
              /\ UNCHANGED pending_ai_requests
           \/ /\ GEMINI_API_KEY = ""
              /\ has_extension
              /\ conversations' = C2
              /\ pending_ai_requests' = pending_ai_requests @@
                     (AiRid(r) :> [session_id |-> session_id, web_client_sid |-> sid,
                                   result |-> "None", completed |-> FALSE])
              /\ run' = [run EXCEPT ![r] = [rec EXCEPT !.pc = "ai_wait"]]
              /\ emitted' = accepted \o
                     <<Ev(get_active_extension, "process_ai_message",
                          [request_id |-> AiRid(r), session_id |-> session_id,
                           text |-> text])>>
           \/ /\ GEMINI_API_KEY # ""
              /\ conversations' = C2
              /\ run' = [run EXCEPT ![r] = [rec EXCEPT !.pc = "api", !.calls = 1]]
              /\ emitted' = accepted
              /\ UNCHANGED pending_ai_requests

handle_send_message(sid, session_id, text) ==
    /\ \/ SendBlocked(sid, session_id, text)
       \/ SendRejected(sid, session_id, text)
       \/ SendAccepted(sid, session_id, text)
    /\ held' = {}
    /\ UNCHANGED <<GEMINI_API_KEY, SERPER_API_KEY, serper, pending_pings, web_clients, extensions,
                   pending_tool_requests>>

Without(f, k) == [x \in DOMAIN f \ {k} |-> f[x]]

\* route_message_via_extension wakes up with its request completed, and the
\* handler runs to its end
AiReturn(r) ==
    LET rid == AiRid(r)
        result == pending_ai_requests[rid].result
        err == IF result = "error"
               THEN <<Ev(run[r].sid, "error", [message |-> "error"])>> ELSE <<>>
    IN  /\ run[r].pc = "ai_wait"
        /\ pending_ai_requests[rid].completed
        /\ pending_ai_requests' = Without(pending_ai_requests, rid)
        /\ conversations' = SetProcessing(conversations, r, FALSE)
        /\ run' = [run EXCEPT ![r] = Finished(@, Len(err), 1)]
        /\ emitted' = err \o <<Ev(run[r].sid, "stream_end", NoData)>>
        /\ held' = {}
        /\ UNCHANGED <<GEMINI_API_KEY, SERPER_API_KEY, serper, pending_pings, web_clients, extensions,
                       pending_tool_requests, budget>>

\* route_message_via_extension wakes up after its 300 s deadline
AiTimeout(r) ==
    LET rid == AiRid(r)
    IN  /\ run[r].pc = "ai_wait"
        /\ pending_ai_requests' = Without(pending_ai_requests, rid)
        /\ conversations' = SetProcessing(conversations, r, FALSE)
        /\ run' = [run EXCEPT ![r] = Finished(@, 1, 1)]
        /\ emitted' = <<Ev(run[r].sid, "error", [message |-> "AI request timeout"]),
                        Ev(run[r].sid, "stream_end", NoData)>>
        /\ held' = {}
        /\ UNCHANGED <<GEMINI_API_KEY, SERPER_API_KEY, serper, pending_pings, web_clients, extensions,
                       pending_tool_requests, budget>>

\* ------------------------------------------------- events sent by a driver
Currents == {1}
Totals == {2}
Urls == {"u"}

handle_ai_stream_chunk(rid, chunk) ==
    LET req == pending_ai_requests[rid]
        res == append_stream_chunk(conversations, req.session_id, chunk)
    IN  /\ chunk # "__CLEAR__" => budget.chunks > 0
        /\ IF rid \in DOMAIN pending_ai_requests
           THEN /\ conversations' = res.C
                /\ budget' = IF chunk # "__CLEAR__" /\ ~res.raised
                              THEN [budget EXCEPT !.chunks = @ - 1] ELSE budget
                /\ emitted' = IF res.raised THEN <<>>
                              ELSE <<Ev(req.web_client_sid, "stream_chunk", [chunk |-> chunk])>>
           ELSE /\ emitted' = <<>>
                /\ UNCHANGED <<conversations, budget>>
        /\ held' = IF emitted' # <<>> THEN {"ai_request_lock"} ELSE {}
        /\ UNCHANGED <<GEMINI_API_KEY, SERPER_API_KEY, serper, pending_pings, web_clients, extensions,
                       pending_tool_requests, pending_ai_requests, run>>

handle_ai_tool_call(rid, tool_name) ==
    LET req == pending_ai_requests[rid]
    IN  /\ IF rid \in DOMAIN pending_ai_requests
           THEN /\ conversations' = update_progress(conversations, req.session_id, tool_name, 0, 0, "")
                /\ emitted' = <<Ev(req.web_client_sid, "tool_call", [name |-> tool_name])>>
           ELSE /\ emitted' = <<>>
                /\ UNCHANGED conversations
        /\ held' = IF emitted' # <<>> THEN {"ai_request_lock"} ELSE {}
        /\ UNCHANGED <<GEMINI_API_KEY, SERPER_API_KEY, serper, pending_pings, web_clients, extensions,
                       pending_tool_requests, pending_ai_requests, run, budget>>

handle_ai_tool_executing(rid, tool_name) ==
    /\ emitted' = IF rid \in DOMAIN pending_ai_requests
                  THEN <<Ev(pending_ai_requests[rid].web_client_sid, "tool_executing",
                            [name |-> tool_name])>>
                  ELSE <<>>
    /\ held' = IF emitted' # <<>> THEN {"ai_request_lock"} ELSE {}
    /\ UNCHANGED <<GEMINI_API_KEY, SERPER_API_KEY, serper, pending_pings, web_clients, extensions, conversations,
                   pending_tool_requests, pending_ai_requests, run, budget>>

handle_ai_tool_result(rid, tool_name, success) ==
    /\ emitted' = IF rid \in DOMAIN pending_ai_requests
                  THEN <<Ev(pending_ai_requests[rid].web_client_sid, "tool_result",
                            [name |-> tool_name, success |-> success])>>
                  ELSE <<>>
    /\ held' = IF emitted' # <<>> THEN {"ai_request_lock"} ELSE {}
    /\ UNCHANGED <<GEMINI_API_KEY, SERPER_API_KEY, serper, pending_pings, web_clients, extensions, conversations,
                   pending_tool_requests, pending_ai_requests, run, budget>>

handle_ai_tool_progress(rid, tool_name, current, total, url) ==
    LET req == pending_ai_requests[rid]
    IN  /\ IF rid \in DOMAIN pending_ai_requests
           THEN /\ conversations' = update_progress(conversations, req.session_id, tool_name,
                                                    current, total, url)
                /\ emitted' = <<Ev(req.web_client_sid, "tool_progress",
                                   [name |-> tool_name, current |-> current,
                                    total |-> total, url |-> url])>>
           ELSE /\ emitted' = <<>>
                /\ UNCHANGED conversations
        /\ held' = IF emitted' # <<>> THEN {"ai_request_lock"} ELSE {}
        /\ UNCHANGED <<GEMINI_API_KEY, SERPER_API_KEY, serper, pending_pings, web_clients, extensions,
                       pending_tool_requests, pending_ai_requests, run, budget>>

handle_ai_response_complete(rid) ==
    LET req == pending_ai_requests[rid]
        res == finalize_response(conversations, req.session_id)
    IN  /\ IF rid \in DOMAIN pending_ai_requests
           THEN /\ conversations' = res.C
                /\ pending_ai_requests' =
                       IF res.raised THEN pending_ai_requests
                       ELSE [pending_ai_requests EXCEPT ![rid].result = "ok",
                                                        ![rid].completed = TRUE]
           ELSE UNCHANGED <<conversations, pending_ai_requests>>
        /\ emitted' = <<>>
        /\ held' = {}
        /\ UNCHANGED <<GEMINI_API_KEY, SERPER_API_KEY, serper, pending_pings, web_clients, extensions,
                       pending_tool_requests, run, budget>>

handle_ai_response_error(rid) ==
    /\ IF rid \in DOMAIN pending_ai_requests
       THEN /\ emitted' = <<Ev(pending_ai_requests[rid].web_client_sid, "error",
                               [message |-> "error"])>>
            /\ pending_ai_requests' = [pending_ai_requests EXCEPT ![rid].result = "error",
                                                                  ![rid].completed = TRUE]
       ELSE /\ emitted' = <<>>
            /\ UNCHANGED pending_ai_requests
    /\ held' = IF emitted' # <<>> THEN {"ai_request_lock"} ELSE {}
    /\ UNCHANGED <<GEMINI_API_KEY, SERPER_API_KEY, serper, pending_pings, web_clients, extensions, conversations,
                   pending_tool_requests, run, budget>>

handle_tool_result_Upsert(rid, result) ==
    /\ pending_tool_requests' =
           [q \in DOMAIN pending_tool_requests \cup {rid} |->
               IF q = rid THEN [session_id |-> "", result |-> result, completed |-> TRUE]
               ELSE pending_tool_requests[q]]
    /\ emitted' = <<>>
    /\ held' = {}
    /\ UNCHANGED <<GEMINI_API_KEY, SERPER_API_KEY, serper, pending_pings, web_clients, extensions,
                   conversations, pending_ai_requests, run, budget>>

handle_tool_result(rid, result) ==
    /\ pending_tool_requests' =
           IF rid \in DOMAIN pending_tool_requests
           THEN [pending_tool_requests EXCEPT ![rid].result = result, ![rid].completed = TRUE]
           ELSE pending_tool_requests
    /\ emitted' = <<>>
    /\ held' = {}
    /\ UNCHANGED <<GEMINI_API_KEY, SERPER_API_KEY, serper, pending_pings, web_clients, extensions, conversations,
                   pending_ai_requests, run, budget>>

\* one emit per web client bound to session_id
RelayTo(sids, name, data) ==
    LET hit == SelectSeq(WebSidSeq, LAMBDA w : w \in sids)
    IN  [i \in 1..Len(hit) |-> Ev(hit[i], name, data)]

handle_tool_progress(session_id, tool_name, current, total, url) ==
    /\ emitted' = RelayTo({w \in DOMAIN web_clients : web_clients[w] = session_id},
                          "tool_progress",
                          [session_id |-> session_id, tool |-> tool_name,
                           current |-> current, total |-> total, url |-> url])
    /\ held' = {}
    /\ UNCHANGED <<GEMINI_API_KEY, SERPER_API_KEY, serper, pending_pings, web_clients, extensions, conversations,
                   pending_tool_requests, pending_ai_requests, run, budget>>

\* ------------------------------------------------------ server-driven loop
FunctionCall(tool_name) ==
    Message("assistant", "", <<[functionCall |-> [name |-> tool_name]]>>)

FunctionResponse(tool_name, result) ==
    Message("user", "", <<[functionResponse |-> [name |-> tool_name, response |-> result]]>>)

RoundTool_Last(tool_calls) == tool_calls[Len(tool_calls)]

\* the tool of this round
RoundTool(tool_calls) == tool_calls[1]

\* the two log entries of one tool round
RoundLog(C, session_id, tool_calls, result) ==
    add_message(add_message(C, session_id, FunctionCall(RoundTool(tool_calls))),
                session_id, FunctionResponse(RoundTool(tool_calls), result))

LoopCondition_Unbounded(tool_calls, loop_count) == tool_calls # <<>>

\* whether the loop of handle_send_message goes for another round
LoopCondition(tool_calls, loop_count) == tool_calls # <<>> /\ loop_count < max_loops

\* lines 582-592: the tool of thread r returned result; the round is logged and
\* the next completion call starts.  C, rec and pre are the store, the thread
\* and the events sent as the step has them so far.
RoundEnd(r, C, rec, pre, result) ==
    /\ conversations' = RoundLog(C, rec.session_id, rec.tool_calls, result)
    /\ run' = [run EXCEPT ![r] = [rec EXCEPT !.pc = "api", !.calls = @ + 1,
                                            !.text = "", !.tool_calls = <<>>]]
    /\ emitted' = pre \o <<Ev(rec.sid, "tool_result",
                              [name |-> RoundTool(rec.tool_calls), success |-> result # "error"])>>

\* lines 598-606: the loop is over with the response {text, tool_calls}; the
\* final text is logged and the turn ends after the events pre
TurnEnd(r, C, text, tool_calls, pre, nerr, nend) ==
    LET C1 == IF text # "" THEN add_message(C, run[r].session_id, Message("assistant", text, <<>>))
              ELSE C
    IN  /\ conversations' = SetProcessing(C1, r, FALSE)
        /\ run' = [run EXCEPT ![r] = Finished([@ EXCEPT !.tool_calls = tool_calls], nerr, nend)]
        /\ emitted' = pre \o [i \in 1..nend |-> Ev(run[r].sid, "stream_end", NoData)]

\* call_gemini_api reads a text part: stream_callback('chunk', ...)
GeminiChunk(r, chunk) ==
    LET res == append_stream_chunk(conversations, run[r].session_id, chunk)
    IN  /\ run[r].pc = "api"
        /\ budget.chunks > 0
        /\ IF res.raised
           THEN /\ TurnEnd(r, res.C, "", <<>>, <<Ev(run[r].sid, "error", [message |-> "KeyError"])>>, 1, 1)
                /\ UNCHANGED budget
           ELSE /\ conversations' = res.C
                /\ run' = [run EXCEPT ![r].text = @ \o chunk]
                /\ budget' = [budget EXCEPT !.chunks = @ - 1]
                /\ emitted' = <<Ev(run[r].sid, "stream_chunk", [chunk |-> chunk])>>
        /\ held' = {}
        /\ UNCHANGED <<GEMINI_API_KEY, SERPER_API_KEY, serper, pending_pings, web_clients, extensions,
                       pending_tool_requests, pending_ai_requests>>

\* call_gemini_api reads a functionCall part: stream_callback('toolCall', ...)
GeminiToolCall(r, tool_name) ==
    /\ run[r].pc = "api"
    /\ Len(run[r].tool_calls) < MaxToolCalls
    /\ budget.tools > 0
    /\ budget' = [budget EXCEPT !.tools = @ - 1]
    /\ run' = [run EXCEPT ![r].tool_calls = Append(@, tool_name)]
    /\ emitted' = <<Ev(run[r].sid, "tool_call", [name |-> tool_name])>>
    /\ held' = {}
    /\ UNCHANGED <<GEMINI_API_KEY, SERPER_API_KEY, serper, pending_pings, web_clients, extensions, conversations,
                   pending_tool_requests, pending_ai_requests>>

\* call_gemini_api returns {"error": ...}: the first call returns inside the
\* try (the finally block runs after it), a later call breaks out of the loop
GeminiError(r) ==
    LET err == <<Ev(run[r].sid, "error", [message |-> "RequestException"])>>
    IN  /\ run[r].pc = "api"
        /\ IF run[r].calls = 1
           THEN TurnEnd(r, conversations, "", <<>>, err, 1, 2)
           ELSE TurnEnd(r, conversations, "", <<>>, err, 1, 1)
        /\ held' = {}
        /\ UNCHANGED <<GEMINI_API_KEY, SERPER_API_KEY, serper, pending_pings, web_clients, extensions,
                       pending_tool_requests, pending_ai_requests, budget>>

\* call_gemini_api returns {"text", "toolCalls"}: the loop test, and a tool
\* round up to the point where its tool suspends
GeminiReturn(r) ==
    LET rec == [run[r] EXCEPT !.loop_count = @ + 1]
        tool == RoundTool(run[r].tool_calls)
        C1 == update_progress(conversations, run[r].session_id, tool, 0, 0, "")
        pre == <<Ev(run[r].sid, "tool_executing", [name |-> tool])>>
        rid == ToolRid(r, rec.loop_count)
    IN  /\ run[r].pc = "api"
        /\ IF LoopCondition(run[r].tool_calls, run[r].loop_count)
           THEN \/ /\ tool = "serper_search"
                   /\ SERPER_API_KEY = ""
                   /\ RoundEnd(r, C1, rec, pre, "error")
                   /\ UNCHANGED pending_tool_requests
                \/ /\ tool = "serper_search"
                   /\ SERPER_API_KEY # ""
                   /\ conversations' = C1
                   /\ run' = [run EXCEPT ![r] = [rec EXCEPT !.pc = "serper"]]
                   /\ emitted' = pre
                   /\ UNCHANGED pending_tool_requests
                \/ /\ tool # "serper_search"
                   /\ has_extension
                   /\ conversations' = C1
                   /\ pending_tool_requests' = pending_tool_requests @@
                          (rid :> [session_id |-> run[r].session_id, result |-> "None",
                                   completed |-> FALSE])
                   /\ run' = [run EXCEPT ![r] = [rec EXCEPT !.pc = "tool"]]
                   /\ emitted' = pre \o
                          <<Ev(get_active_extension, "execute_tool",
                               [request_id |-> rid, tool_name |-> tool])>>
                \/ /\ tool # "serper_search"
                   /\ ~has_extension
                   /\ RoundEnd(r, C1, rec, pre, "error")
                   /\ UNCHANGED pending_tool_requests
           ELSE /\ TurnEnd(r, conversations, run[r].text, run[r].tool_calls, <<>>, 0, 1)
                /\ UNCHANGED pending_tool_requests
        /\ held' = {}
        /\ UNCHANGED <<GEMINI_API_KEY, SERPER_API_KEY, serper, pending_pings, web_clients, extensions,
                       pending_ai_requests, budget>>

\* execute_serper_search returns its report
SerperReturn(r) ==
    /\ run[r].pc = "serper"
    /\ RoundEnd(r, conversations, run[r], <<>>, "ok")
    /\ held' = {}
    /\ UNCHANGED <<GEMINI_API_KEY, SERPER_API_KEY, serper, pending_pings, web_clients, extensions,
                   pending_tool_requests, pending_ai_requests, budget>>

\* execute_tool_via_extension wakes up with its request completed
ToolReturn(r) ==
    LET rid == ToolRid(r, run[r].loop_count)
    IN  /\ run[r].pc = "tool"
        /\ pending_tool_requests[rid].completed
        /\ pending_tool_requests' = Without(pending_tool_requests, rid)
        /\ RoundEnd(r, conversations, run[r], <<>>, pending_tool_requests[rid].result)
        /\ held' = {}
        /\ UNCHANGED <<GEMINI_API_KEY, SERPER_API_KEY, serper, pending_pings, web_clients, extensions,
                       pending_ai_requests, budget>>

ToolTimeout_Retry(r) ==
    LET rid == ToolRid(r, run[r].loop_count)
    IN  /\ run[r].pc = "tool"
        /\ has_extension
        /\ emitted' = <<Ev(get_active_extension, "execute_tool",
                           [request_id |-> rid, tool_name |-> RoundTool(run[r].tool_calls)])>>
        /\ held' = {}
        /\ UNCHANGED <<GEMINI_API_KEY, SERPER_API_KEY, serper, pending_pings, web_clients, extensions,
                       conversations, pending_tool_requests, pending_ai_requests, run, budget>>

\* execute_tool_via_extension wakes up after its 120 s deadline
ToolTimeout(r) ==
    LET rid == ToolRid(r, run[r].loop_count)
    IN  /\ run[r].pc = "tool"
        /\ pending_tool_requests' = Without(pending_tool_requests, rid)
        /\ RoundEnd(r, conversations, run[r], <<>>, "error")
        /\ held' = {}
        /\ UNCHANGED <<GEMINI_API_KEY, SERPER_API_KEY, serper, pending_pings, web_clients, extensions,
                       pending_ai_requests, budget>>

\* ------------------------------------------------- the sender of an event
\* The handlers of the driver's events read the event's data only (request_id,
\* chunk, result): none of them reads request.sid, so the handler run is the
\* same whichever connection sid sent the event.
tool_result_from(sid, rid, result) == handle_tool_result(rid, result)

ai_stream_chunk_from(sid, rid, chunk) == handle_ai_stream_chunk(rid, chunk)

ai_response_complete_from(sid, rid) == handle_ai_response_complete(rid)

ai_response_error_from(sid, rid) == handle_ai_response_error(rid)

\* ---------------------------------------------------------- specification
\* the correlation ids dispatched so far (pending or retired), and one never issued
Issued ==
    {0} \cup {AiRid(r) : r \in {q \in Runs : run[q].pc # "idle" /\ GEMINI_API_KEY = ""}}
        \cup UNION {{ToolRid(r, k) : k \in 1..run[r].loop_count} : r \in Runs}

\* the handlers, for the sessions S, the observer connections W and the driver
\* connections E of the environment
Connection(S, W, E) ==
    \/ \E sid \in W \cup E : handle_disconnect(sid)
    \/ \E sid \in W, s \in S : handle_register_web(sid, s)
    \/ \E sid \in E : handle_register_extension(sid)

Observer(S, W) ==
    \/ \E sid \in W, s \in S, text \in Texts : handle_send_message(sid, s, text)
    \/ \E sid \in W, s \in S : handle_clear(sid, s)

AiDriver ==
    \/ \E rid \in Issued, chunk \in DriverChunks : handle_ai_stream_chunk(rid, chunk)
    \/ \E rid \in Issued, t \in DriverTools : handle_ai_tool_call(rid, t)
    \/ \E rid \in Issued, t \in DriverTools : handle_ai_tool_executing(rid, t)
    \/ \E rid \in Issued, t \in DriverTools : handle_ai_tool_result(rid, t, TRUE)
    \/ \E rid \in Issued, t \in DriverTools, c \in Currents, n \in Totals, u \in Urls :
           handle_ai_tool_progress(rid, t, c, n, u)
    \/ \E rid \in Issued : handle_ai_response_complete(rid)
    \/ \E rid \in Issued : handle_ai_response_error(rid)

ToolDriver(S) ==
    \/ \E rid \in Issued, res \in Results : handle_tool_result(rid, res)
    \/ \E s \in S, t \in DriverTools, c \in Currents, n \in Totals, u \in Urls :
           handle_tool_progress(s, t, c, n, u)

Delegated(r) ==
    \/ AiReturn(r)
    \/ AiTimeout(r)

ServerDriven(r) ==
    \/ \E chunk \in Chunks : GeminiChunk(r, chunk)
    \/ \E t \in ToolNames : GeminiToolCall(r, t)
    \/ GeminiError(r)
    \/ GeminiReturn(r)
    \/ SerperReturn(r)
    \/ ToolReturn(r)
    \/ ToolTimeout(r)

S1 == {"s1"}
W1 == {"w1"}
E1 == {"e1"}

\* one session, one observer connection, one driver connection
Next ==
    \/ Connection(S1, W1, E1)
    \/ Observer(S1, W1)
    \/ AiDriver
    \/ ToolDriver(S1)
    \/ \E r \in Runs : Delegated(r) \/ ServerDriven(r)

Spec == Init /\ [][Next]_vars

\* completion calls return, wake-ups happen and deadlines elapse
Fairness ==
    \A r \in Runs :
        /\ WF_vars(AiReturn(r))
        /\ WF_vars(AiTimeout(r))
        /\ WF_vars(GeminiReturn(r) \/ GeminiError(r))
        /\ WF_vars(SerperReturn(r))
        /\ WF_vars(ToolReturn(r))
        /\ WF_vars(ToolTimeout(r))

LiveSpec == Init /\ [][Next]_vars /\ Fairness

\* driver-delegated deployments in which a second send can be accepted
InitTwoSends == InitWith({""}, MaxSends + 1, MaxChunks, MaxTools)

NextDelegated ==
    \/ Connection(S1, W1, E1)
    \/ Observer(S1, W1)
    \/ AiDriver
    \/ ToolDriver(S1)
    \/ \E r \in Runs : Delegated(r)

SpecTwoSends == InitTwoSends /\ [][NextDelegated]_vars

\* server-driven deployments whose completion proposes a tool call in every
\* response of a turn, up to the one after the last round
InitLoop == InitWith({"key"}, MaxSends, MaxChunks, max_loops + 1)

\* the observer only sends; the driver comes, goes and answers tool requests
NextLoop ==
    \/ \E sid \in E1 : handle_register_extension(sid)
    \/ \E sid \in E1 : handle_disconnect(sid)
    \/ \E sid \in W1, s \in S1, text \in Texts : handle_send_message(sid, s, text)
    \/ \E rid \in Issued, res \in Results : handle_tool_result(rid, res)
    \/ \E r \in Runs : ServerDriven(r)

SpecLoop == InitLoop /\ [][NextLoop]_vars

\* two sessions share the observer connection and the driver
S2 == {"s1", "s2"}

NextSessions ==
    \/ Connection(S2, W1, E1)
    \/ Observer(S2, W1)
    \/ AiDriver
    \/ ToolDriver(S2)
    \/ \E r \in Runs : Delegated(r) \/ ServerDriven(r)

SpecSessions == Init /\ [][NextSessions]_vars

\* the ping correlation ids dispatched so far, and one never issued
PingsIssued == {0} \cup {PingRid(n) : n \in (budget.pings + 1)..MaxPings}

\* two driver connections that come and go, in any order
E2 == {"e1", "e2"}

NextDrivers ==
    \/ Connection(S1, W1, E2)
    \/ \E sid \in W1, s \in S1, text \in Texts : handle_send_message(sid, s, text)
    \/ \E sid \in W1, s \in S1 : handle_test_ping(sid, s)
    \/ \E rid \in PingsIssued : handle_pong_from_extension(rid)
    \/ \E rid \in Issued : handle_ai_response_complete(rid)
    \/ \E rid \in Issued, res \in Results : handle_tool_result(rid, res)
    \/ \E r \in Runs : Delegated(r) \/ ServerDriven(r)

SpecDrivers == Init /\ [][NextDrivers]_vars

\* the observer's connection is replaced by another one during a session
W2 == {"w1", "w2"}

\* an observer sends on the session it registered with
NextObservers ==
    \/ Connection(S1, W2, E1)
    \/ \E sid \in W2 \cap DOMAIN web_clients, text \in Texts :
           handle_send_message(sid, web_clients[sid], text)
    \/ \E sid \in W2 \cap DOMAIN web_clients : handle_clear(sid, web_clients[sid])
    \/ AiDriver
    \/ ToolDriver(S1)
    \/ \E r \in Runs : Delegated(r) \/ ServerDriven(r)

SpecObservers == Init /\ [][NextObservers]_vars

\* ------------------------------------------------- execute_serper_search
\* A query is a string, modelled as the sequence of its characters.
Chars == {"a", "b", " ", ";"}
Whitespace == {" "}
Queries == {<<>>} \cup UNION {[1..n -> Chars] : n \in 1..MaxQueryLen}

\* what one requests.post + response.json() does: it raises, or it returns a
\* JSON object with n organic results (n = 0: no 'organic' key or an empty list)
Upstream ==
    {[raised |-> TRUE, organic |-> <<>>]}
    \cup {[raised |-> FALSE, organic |-> [i \in 1..n |-> i]] : n \in 0..MaxOrganic}

\* str.split(sep): the pieces between the separators, empty pieces included
RECURSIVE split(_, _)
split(str, sep) ==
    IF \A i \in 1..Len(str) : str[i] # sep
    THEN <<str>>
    ELSE LET k == CHOOSE i \in 1..Len(str) :
                      str[i] = sep /\ \A j \in 1..(i - 1) : str[j] # sep
         IN  <<SubSeq(str, 1, k - 1)>> \o split(SubSeq(str, k + 1, Len(str)), sep)

\* str.strip(): leading and trailing whitespace removed
RECURSIVE strip(_)
strip(q) ==
    IF q # <<>> /\ q[1] \in Whitespace THEN strip(Tail(q))
    ELSE IF q # <<>> /\ q[Len(q)] \in Whitespace THEN strip(SubSeq(q, 1, Len(q) - 1))
    ELSE q

\* [q.strip() for q in query.split(';') if q.strip()]
SplitQueries(query) ==
    LET pieces == split(query, ";")
    IN  SelectSeq([i \in 1..Len(pieces) |-> strip(pieces[i])], LAMBDA q : q # <<>>)

Slice_All(seq, k) == seq

\* seq[:k]
Slice(seq, k) == SubSeq(seq, 1, IF Len(seq) < k THEN Len(seq) ELSE k)

\* one line of the report
Line(kind, query, rank) == [kind |-> kind, query |-> query, rank |-> rank]

\* the lines the report gets for one item of results
Section(item) ==
    <<Line("query", item.query, 0), Line("rule", <<>>, 0)>>
    \o (IF ~item.success
        THEN <<Line("error", <<>>, 0)>>
        ELSE LET shown == Slice(item.organic, organic_limit)
             IN  [i \in 1..Len(shown) |-> Line("entry", <<>>, shown[i])])

RECURSIVE Report(_)
Report(results) ==
    IF results = <<>> THEN <<>> ELSE Section(Head(results)) \o Report(Tail(results))

SerperAt(pc, query, queries, results, ret) ==
    [pc |-> pc, query |-> query, queries |-> queries, results |-> results, ret |-> ret]

NoReturn == [error |-> "", success |-> FALSE, data |-> <<>>]

\* execute_serper_search up to its first upstream call
SerperBegin ==
    /\ serper.pc = "start"
    /\ serper' = IF SERPER_API_KEY = ""
                 THEN SerperAt("done", serper.query, <<>>, <<>>,
                               [NoReturn EXCEPT !.error = "Serper API key not configured"])
                 ELSE SerperAt("post", serper.query, SplitQueries(serper.query), <<>>,
                               NoReturn)
    /\ UNCHANGED <<GEMINI_API_KEY, SERPER_API_KEY, web_clients, extensions, conversations,
                   pending_tool_requests, pending_ai_requests, pending_pings, held, run,
                   budget, emitted>>

\* one iteration of the loop over queries: the upstream call and its outcome
SerperPost(outcome) ==
    /\ serper.pc = "post"
    /\ Len(serper.results) < Len(serper.queries)
    /\ LET q == serper.queries[Len(serper.results) + 1]
           item == IF outcome.raised
                   THEN [query |-> q, success |-> FALSE, organic |-> <<>>]
                   ELSE [query |-> q, success |-> TRUE, organic |-> outcome.organic]
       IN  serper' = [serper EXCEPT !.results = Append(@, item)]
    /\ UNCHANGED <<GEMINI_API_KEY, SERPER_API_KEY, web_clients, extensions, conversations,
                   pending_tool_requests, pending_ai_requests, pending_pings, held, run,
                   budget, emitted>>

\* the loop is over: the report is formatted and returned
SerperFormat ==
    /\ serper.pc = "post"
    /\ Len(serper.results) = Len(serper.queries)
    /\ serper' = [serper EXCEPT
                     !.pc = "done",
                     !.ret = [NoReturn EXCEPT
                                !.success = TRUE,
                                !.data = <<Line("header", <<>>, 0)>> \o Report(serper.results)]]
    /\ UNCHANGED <<GEMINI_API_KEY, SERPER_API_KEY, web_clients, extensions, conversations,
                   pending_tool_requests, pending_ai_requests, pending_pings, held, run,
                   budget, emitted>>

\* execute_serper_search called on any query, with and without a key
InitSerper ==
    /\ GEMINI_API_KEY = "key"
    /\ SERPER_API_KEY \in {"", "key"}
    /\ web_clients = [w \in {} |-> ""]
    /\ extensions = <<>>
    /\ conversations = [s \in {} |-> FullConv]
    /\ pending_tool_requests = [q \in {} |-> 0]
    /\ pending_ai_requests = [q \in {} |-> 0]
    /\ pending_pings = [q \in {} |-> 0]
    /\ held = {}
    /\ \E query \in Queries : serper = SerperAt("start", query, <<>>, <<>>, NoReturn)
    /\ run = [r \in Runs |-> IdleRun]
    /\ budget = [sends |-> 0, chunks |-> 0, tools |-> 0, pings |-> 0]
    /\ emitted = <<>>

NextSerper ==
    \/ SerperBegin
    \/ \E outcome \in Upstream : SerperPost(outcome)
    \/ SerperFormat

SpecSerper == InitSerper /\ [][NextSerper]_vars

\* ------------------------------------------------------------------ claims
Busy(s) == s \in DOMAIN conversations /\ conversations[s].processing

BusyNext(s) == s \in DOMAIN conversations' /\ conversations'[s].processing

\* thread r emits its (last) stream_end in this step
Ends(r) == run[r].pc # "done" /\ run'[r].pc = "done"

Names(evs) == [i \in 1..Len(evs) |-> evs[i].name]

Has(evs, name) == \E i \in 1..Len(evs) : evs[i].name = name

\* C1: every accepted send_message, in either strategy and whatever the driver
\* does, leads to its stream_end, and a session that is processing leads to
\* one that is not.
C1_NoSessionStaysBusy ==
    /\ \A r \in Runs : Active(r) ~> (run[r].pc = "done" /\ run[r].ends >= 1)
    /\ \A s \in Sessions : Busy(s) ~> ~Busy(s)

\* a turn the driver never answered has ended by its deadline
C1_Witness ==
    /\ Has(emitted, "stream_end")
    /\ \E i \in 1..Len(emitted) : emitted[i].data = [message |-> "AI request timeout"]
    /\ \E r \in Runs : run[r].pc = "done" /\ ~Busy(run[r].session_id)

\* C2: the processing flag of a session is false before its first send and in
\* the state in which a turn of the session emits stream_end.
C2_BusyFalseAfterStreamEnd ==
    /\ []((\A r \in Runs : run[r].pc = "idle") => \A s \in Sessions : ~Busy(s))
    /\ [][\A r \in Runs : Ends(r) => ~BusyNext(run'[r].session_id)]_vars

\* C3: a session's processing flag is true exactly while a handle_send_message
\* thread that was accepted and has not yet emitted its stream_end owns it.
C3_BusyIffOwned ==
    \A s \in Sessions : Busy(s) <=> \E r \in Runs : Active(r) /\ run[r].session_id = s

\* C4: a send_message on a session that is processing sends one error event
\* to the sender and changes nothing else: no session record, no correlation
\* table, no thread, nothing dispatched to a driver.
C4_BusySendMutatesNothing ==
    [][\A sid \in WebSids, s \in Sessions :
          (Busy(s) /\ handle_send_message(sid, s, "hi"))
              => /\ UNCHANGED <<conversations, pending_tool_requests, pending_ai_requests,
                                run, budget, web_clients, extensions>>
                 /\ Len(emitted') = 1
                 /\ emitted'[1].to = sid
                 /\ emitted'[1].name = "error"]_vars

\* a send was just refused on a session with a log, while a thread is running
C4_Witness ==
    /\ Names(emitted) = <<"error">>
    /\ emitted[1].data = [message |-> "Already processing a message"]
    /\ Busy("s1")
    /\ conversations["s1"].messages # <<>>
    /\ \E r \in Runs : Active(r)

\* C5: a clear_conversation for a session that is processing is refused and
\* leaves the session's record as it is.
C5_ClearWhileBusyRejected ==
    [][\A sid \in WebSids, s \in Sessions :
          (Busy(s) /\ handle_clear(sid, s)) => UNCHANGED <<conversations, run>>]_vars

\* C6: when the active driver disconnects, every pending correlation is
\* resolved at once (completed, with a failure as its result).
C6_DisconnectFailsPending ==
    [][\A sid \in ExtSids :
          (has_extension /\ get_active_extension = sid /\ handle_disconnect(sid))
              => /\ \A q \in DOMAIN pending_ai_requests' :
                        pending_ai_requests'[q].completed /\ pending_ai_requests'[q].result = "error"
                 /\ \A q \in DOMAIN pending_tool_requests' :
                        pending_tool_requests'[q].completed /\ pending_tool_requests'[q].result = "error"]_vars

\* C7: in the state in which a turn emits stream_end, the session's stream
\* buffer is empty, its progress snapshot is cleared and its flag is false.
C7_FinalizedAtStreamEnd ==
    [][\A r \in Runs :
          Ends(r) => LET conv == conversations'[run'[r].session_id]
                     IN  /\ conv.current_response = ""
                         /\ conv.progress = {}
                         /\ ~conv.processing]_vars

\* the replay a registering observer is owed for record conv
Replay(sid, conv) ==
    (IF conv.current_response # ""
     THEN <<Ev(sid, "stream_chunk", [chunk |-> conv.current_response])>> ELSE <<>>)
    \o (IF conv.progress # {}
        THEN <<Ev(sid, "tool_progress", CHOOSE p \in conv.progress : TRUE)>> ELSE <<>>)

\* C8: an observer that registers with the id of a session that is processing
\* is sent exactly the session's buffer (if not empty) and its progress
\* snapshot (if set), as they are at that moment.
C8_BusyReplayExact ==
    [][\A sid \in WebSids, s \in Sessions :
          (Busy(s) /\ handle_register_web(sid, s))
              => SelectSeq(emitted', LAMBDA e : e.name \in {"stream_chunk", "tool_progress"})
                     = Replay(sid, conversations[s])]_vars

IsCall(m) == m.parts # <<>> /\ "functionCall" \in DOMAIN m.parts[1]

IsResponse(m) == m.parts # <<>> /\ "functionResponse" \in DOMAIN m.parts[1]

\* every function-call message is directly followed by the function-result
\* message of the same tool, and every function-result message follows one
PairedLog(msgs) ==
    \A i \in 1..Len(msgs) :
        /\ IsCall(msgs[i]) =>
               /\ i < Len(msgs)
               /\ IsResponse(msgs[i + 1])
               /\ msgs[i + 1].parts[1].functionResponse.name = msgs[i].parts[1].functionCall.name
        /\ IsResponse(msgs[i]) => i > 1 /\ IsCall(msgs[i - 1])

\* C9: a tool round of the server-driven loop executes the first tool call of
\* the response and no other, and appends to the session log one function-call
\* message directly followed by one function-result message of that tool.
C9_FirstProposalOnly ==
    /\ [](\A s \in DOMAIN conversations : PairedLog(conversations[s].messages))
    /\ [][\A r \in Runs :
            LET first == run[r].tool_calls[1]
                old == conversations[run[r].session_id].messages
                new == conversations'[run[r].session_id].messages
                n == Len(old)
            IN  /\ (Active(r) /\ run'[r].loop_count # run[r].loop_count) =>
                       /\ run'[r].loop_count = run[r].loop_count + 1
                       /\ Len(SelectSeq(emitted', LAMBDA e : e.name = "tool_executing")) = 1
                       /\ \A i \in 1..Len(emitted') :
                              emitted'[i].name = "tool_executing" => emitted'[i].data.name = first
                       /\ \A i \in 1..Len(emitted') :
                              emitted'[i].name = "execute_tool" => emitted'[i].data.tool_name = first
                       /\ Len(SelectSeq(emitted', LAMBDA e : e.name = "execute_tool")) <= 1
                /\ (Active(r) /\ run'[r].calls = run[r].calls + 1) =>
                       /\ Len(new) = n + 2
                       /\ SubSeq(new, 1, n) = old
                       /\ new[n + 1] = FunctionCall(first)
                       /\ IsResponse(new[n + 2])
                       /\ new[n + 2].parts[1].functionResponse.name = first
                       /\ \E i \in 1..Len(emitted') :
                              /\ emitted'[i].name = "tool_result"
                              /\ emitted'[i].data.name = first]_vars

\* a response proposed two tool calls; one round has run and logged one pair
C9_Witness ==
    \E r \in Runs :
        /\ run[r].pc = "api"
        /\ run[r].loop_count = 1
        /\ run[r].tool_calls = <<>>
        /\ budget.tools = MaxTools - 2
        /\ Len(SelectSeq(conversations[run[r].session_id].messages, IsCall)) = 1
        /\ Len(SelectSeq(conversations[run[r].session_id].messages, IsResponse)) = 1

\* C10: a server-driven turn runs at most 5 tool rounds and 6 completion
\* calls; if the response after the 5th round still proposes a tool call, the
\* turn logs that response's text and ends with stream_end and no error event.
C10_LoopBound ==
    /\ [](\A r \in Runs : run[r].loop_count <= 5 /\ run[r].calls <= 6)
    /\ [][\A r \in Runs :
            (run[r].loop_count = 5 /\ run[r].tool_calls # <<>> /\ GeminiReturn(r))
                => LET old == conversations[run[r].session_id].messages
                       new == conversations'[run[r].session_id].messages
                   IN  /\ run'[r].pc = "done"
                       /\ run'[r].errors = 0
                       /\ run'[r].loop_count = 5
                       /\ Names(emitted') = <<"stream_end">>
                       /\ new = IF run[r].text # ""
                                THEN Append(old, Message("assistant", run[r].text, <<>>))
                                ELSE old]_vars

\* a turn has ended after 5 rounds on a 6th response that proposed a tool call
C10_Witness ==
    \E r \in Runs :
        /\ run[r].pc = "done"
        /\ run[r].loop_count = 5
        /\ run[r].calls = 6
        /\ run[r].tool_calls # <<>>
        /\ run[r].errors = 0
        /\ Names(emitted) = <<"stream_end">>

\* C11: in a server-driven turn whose driver-executed tool is never answered,
\* the 120 s deadline retires the correlation, sends the observer a tool_result
\* with success false, dispatches nothing again, and the turn goes on until it
\* ends with stream_end and the session not processing.
C11_ToolTimeoutRetires ==
    /\ [][\A r \in Runs :
            (/\ run[r].pc = "tool"
             /\ ~pending_tool_requests[ToolRid(r, run[r].loop_count)].completed
             /\ ToolTimeout(r))
                => /\ ToolRid(r, run[r].loop_count) \notin DOMAIN pending_tool_requests'
                   /\ DOMAIN pending_tool_requests' \subseteq DOMAIN pending_tool_requests
                   /\ emitted' = <<Ev(run[r].sid, "tool_result",
                                      [name |-> RoundTool(run[r].tool_calls), success |-> FALSE])>>
                   /\ run'[r].pc = "api"
                   /\ run'[r].loop_count = run[r].loop_count]_vars
    /\ \A r \in Runs :
           run[r].pc = "tool" ~> (run[r].pc = "done" /\ run[r].ends >= 1
                                  /\ ~Busy(run[r].session_id))

\* the driver is connected, the tool's deadline has just passed and the round
\* is logged with an error result
C11_Witness ==
    \E r \in Runs :
        /\ run[r].pc = "api"
        /\ run[r].loop_count = 1
        /\ has_extension
        /\ pending_tool_requests = <<>>
        /\ emitted = <<Ev(run[r].sid, "tool_result", [name |-> "search_shopee", success |-> FALSE])>>
        /\ LET msgs == conversations[run[r].session_id].messages
           IN  msgs[Len(msgs)] = FunctionResponse("search_shopee", "error")

\* C12: without completion credential and without a registered driver, an
\* accepted send_message answers message_added, stream_start, one error and
\* stream_end in the same step, suspends nowhere, creates no correlation and
\* leaves the session not processing.
C12_NoDriverNoCredential ==
    [][\A sid \in WebSids, s \in Sessions :
          (/\ GEMINI_API_KEY = ""
           /\ ~has_extension
           /\ ~Busy(s)
           /\ handle_send_message(sid, s, "hi"))
              => /\ Names(emitted') = <<"message_added", "stream_start", "error", "stream_end">>
                 /\ \A i \in 1..Len(emitted') : emitted'[i].to = sid
                 /\ ~BusyNext(s)
                 /\ \A r \in Runs : run[r].pc # "idle" => run'[r] = run[r]
                 /\ \E r \in Runs : /\ run[r].pc = "idle"
                                     /\ run'[r].pc = "done"
                                     /\ run'[r].starts = 1
                                     /\ run'[r].errors = 1
                                     /\ run'[r].ends = 1
                 /\ UNCHANGED <<pending_ai_requests, pending_tool_requests>>]_vars

\* such a send has just been answered
C12_Witness ==
    /\ GEMINI_API_KEY = ""
    /\ ~has_extension
    /\ Names(emitted) = <<"message_added", "stream_start", "error", "stream_end">>
    /\ \E r \in Runs : run[r].pc = "done" /\ ~Busy(run[r].session_id)
                        /\ Len(conversations[run[r].session_id].messages) = 1

\* no state but the event list changes, and nothing is sent
Inert ==
    /\ UNCHANGED <<conversations, pending_tool_requests, pending_ai_requests, pending_pings,
                   run, web_clients, extensions>>
    /\ emitted' = <<>>

\* C13: a driver event that carries a correlation id that is not pending
\* (retired, or never issued) changes no session record, no correlation table
\* and no thread, and sends nothing; a deadline removes its id from the table.
C13_RetiredIdInert ==
    /\ [][\A rid \in Rids :
            /\ (/\ rid \notin DOMAIN pending_ai_requests
                /\ \/ \E chunk \in DriverChunks : handle_ai_stream_chunk(rid, chunk)
                   \/ \E t \in DriverTools : handle_ai_tool_call(rid, t)
                   \/ \E t \in DriverTools : handle_ai_tool_executing(rid, t)
                   \/ \E t \in DriverTools : handle_ai_tool_result(rid, t, TRUE)
                   \/ \E t \in DriverTools, c \in Currents, n \in Totals, u \in Urls :
                          handle_ai_tool_progress(rid, t, c, n, u)
                   \/ handle_ai_response_complete(rid)
                   \/ handle_ai_response_error(rid)) => Inert
            /\ (/\ rid \notin DOMAIN pending_tool_requests
                /\ \E res \in Results : handle_tool_result(rid, res)) => Inert]_vars
    /\ [][\A r \in Runs :
            /\ (run[r].pc = "ai_wait" /\ (AiTimeout(r) \/ AiReturn(r)))
                   => AiRid(r) \notin DOMAIN pending_ai_requests'
            /\ (run[r].pc = "tool" /\ (ToolTimeout(r) \/ ToolReturn(r)))
                   => ToolRid(r, run[r].loop_count) \notin DOMAIN pending_tool_requests']_vars

\* a delegated turn on which the driver had reported a tool has ended and its
\* correlation is retired, while the driver is still connected and nothing
\* was sent by the handler that ran last
C13_Witness ==
    \E r \in Runs :
        /\ GEMINI_API_KEY = ""
        /\ has_extension
        /\ run[r].pc = "done"
        /\ conversations[run[r].session_id].progress # {}
        /\ AiRid(r) \in Issued
        /\ AiRid(r) \notin DOMAIN pending_ai_requests
        /\ emitted = <<>>

\* C14: a correlation that is resolved keeps the result of its first
\* resolution until its issuer takes it, and a further completion or error
\* event for it changes no session record and sends nothing.
C14_ResolvedOnce ==
    [][/\ \A q \in DOMAIN pending_tool_requests :
              (pending_tool_requests[q].completed /\ q \in DOMAIN pending_tool_requests')
                  => pending_tool_requests'[q] = pending_tool_requests[q]
       /\ \A q \in DOMAIN pending_ai_requests :
              (pending_ai_requests[q].completed /\ q \in DOMAIN pending_ai_requests')
                  => /\ pending_ai_requests'[q] = pending_ai_requests[q]
                     /\ (handle_ai_response_complete(q) \/ handle_ai_response_error(q))
                            => (UNCHANGED conversations /\ emitted' = <<>>)]_vars

\* C15: an ai_response_complete or ai_response_error event that carries a
\* pending, unresolved correlation id marks that correlation completed.
C15_CompletionResolves ==
    [][\A rid \in Rids :
          (/\ rid \in DOMAIN pending_ai_requests
           /\ ~pending_ai_requests[rid].completed
           /\ (handle_ai_response_complete(rid) \/ handle_ai_response_error(rid)))
              => pending_ai_requests'[rid].completed]_vars

\* the assistant text messages of a log
AssistantTexts(msgs) == SelectSeq(msgs, LAMBDA m : m.role = "assistant" /\ m.parts = <<>>)

\* C16: when a turn ends, the stream buffer is empty; the step that ends a
\* server-driven turn with a buffer that is not empty appends one assistant
\* message with the buffer as its text, and with an empty buffer appends none;
\* the step that ends a delegated turn appends nothing more.
C16_BufferMovedOnce ==
    [][\A r \in Runs :
          (run[r].pc # "idle" /\ run[r].conv_live /\ Ends(r))
              => LET old == conversations[run[r].session_id]
                     new == conversations'[run[r].session_id]
                 IN  /\ new.current_response = ""
                     /\ GEMINI_API_KEY = "" => new.messages = old.messages
                     /\ GEMINI_API_KEY # "" =>
                            AssistantTexts(new.messages) =
                                IF old.current_response # ""
                                THEN Append(AssistantTexts(old.messages),
                                            Message("assistant", old.current_response, <<>>))
                                ELSE AssistantTexts(old.messages)]_vars

\* C17: a turn that has ended has emitted one stream_start and one stream_end
\* (with which it cleared the processing flag), whatever its exit path.
C17_OneStartOneEnd ==
    \A r \in Runs : run[r].pc = "done" => run[r].starts = 1 /\ run[r].ends = 1

\* C18: a tool_progress event for a session that has observers is sent to the
\* observers bound to that session and to no other, and is stored as the
\* session's progress snapshot.
C18_ProgressRelayedAndStored ==
    [][\A s \in Sessions, t \in DriverTools, c \in Currents, n \in Totals, u \in Urls :
          (/\ \E w \in DOMAIN web_clients : web_clients[w] = s
           /\ handle_tool_progress(s, t, c, n, u))
              => /\ {emitted'[i].to : i \in 1..Len(emitted')}
                        = {w \in DOMAIN web_clients : web_clients[w] = s}
                 /\ \A i \in 1..Len(emitted') : emitted'[i].name = "tool_progress"
                 /\ s \in DOMAIN conversations'
                 /\ conversations'[s].progress =
                        {[tool |-> t, current |-> c, total |-> n, url |-> u]}]_vars

\* the events of a handler step that go from the server to a driver
Dispatches(evs) ==
    SelectSeq(evs, LAMBDA e : e.name \in {"execute_tool", "process_ai_message", "ping_from_server"})

\* C19: every execute_tool, process_ai_message and ping_from_server goes to
\* one connection, which is a driver registered when it is sent: the one that
\* registered first among those connected.  The target depends on the
\* registered drivers only, so it stays the same while they do, and no other
\* registered driver is sent anything.
C19_DispatchToActiveDriver ==
    [][LET d == Dispatches(emitted')
       IN  /\ Len(d) <= 1
           /\ \A i \in 1..Len(d) :
                  /\ has_extension
                  /\ d[i].to \in ExtSids
                  /\ InSeq(extensions, d[i].to)
                  /\ d[i].to = extensions[1]
           /\ \A i \in 1..Len(emitted') :
                  emitted'[i].to \in ExtSids =>
                      \/ emitted'[i].name \in {"execute_tool", "process_ai_message",
                                                "ping_from_server"}
                      \/ emitted'[i].name = "registered"]_vars

\* two drivers are registered, e2 first, and a tool request has just gone to e2
C19_Witness ==
    /\ extensions = <<"e2", "e1">>
    /\ Len(Dispatches(emitted)) = 1
    /\ Dispatches(emitted)[1].name = "execute_tool"
    /\ Dispatches(emitted)[1].to = "e2"
    /\ \A i \in 1..Len(emitted) : emitted[i].to # "e1"

\* thread r is suspended on a correlation
Waiting(r) == run[r].pc \in {"ai_wait", "tool"}

\* C20: while a turn waits on a correlation, a send_message on another session
\* that is not processing is accepted, and the driver's ai_stream_chunk and
\* ai_tool_progress events for the turn's pending correlation, and
\* tool_progress events for its session, are stored and relayed.
C20_OnlyIssuerSuspends ==
    [][/\ \A sid \in WebSids, b \in Sessions :
              (/\ \E r \in Runs : Waiting(r) /\ run[r].session_id # b
               /\ ~Busy(b)
               /\ handle_send_message(sid, b, "hi"))
                  => /\ Len(emitted') >= 2
                     /\ emitted'[1].name = "message_added"
                     /\ emitted'[2].name = "stream_start"
       /\ \A r \in Runs :
              run[r].pc = "ai_wait" =>
                  LET rid == AiRid(r)
                      s == run[r].session_id
                      to == pending_ai_requests[rid].web_client_sid
                  IN  /\ \A chunk \in Chunks :
                             (budget.chunks > 0 /\ handle_ai_stream_chunk(rid, chunk))
                                 => emitted' = <<Ev(to, "stream_chunk", [chunk |-> chunk])>>
                      /\ \A t \in DriverTools, c \in Currents, n \in Totals, u \in Urls :
                             handle_ai_tool_progress(rid, t, c, n, u)
                                 => /\ Len(emitted') = 1
                                    /\ emitted'[1].to = to
                                    /\ emitted'[1].name = "tool_progress"
                                    /\ conversations'[s].progress # {}
       /\ \A r \in Runs, t \in DriverTools, c \in Currents, n \in Totals, u \in Urls :
              (Waiting(r) /\ handle_tool_progress(run[r].session_id, t, c, n, u))
                  => \A w \in DOMAIN web_clients :
                         web_clients[w] = run[r].session_id
                             => \E i \in 1..Len(emitted') :
                                    emitted'[i].to = w /\ emitted'[i].name = "tool_progress"]_vars

\* C21: while a delegated correlation is pending, each interim event of the
\* driver that carries its id is answered in the same handler step by exactly
\* the corresponding event to the observer (so the relayed events keep the
\* driver's order), a chunk is appended to the session's buffer, and a tool
\* call or tool progress overwrites the session's progress snapshot.
C21_InterimEventsMirrored ==
    [][\A rid \in DOMAIN pending_ai_requests :
          LET s == pending_ai_requests[rid].session_id
              to == pending_ai_requests[rid].web_client_sid
              old == conversations[s]
              new == conversations'[s]
          IN  /\ \A chunk \in Chunks :
                     (budget.chunks > 0 /\ handle_ai_stream_chunk(rid, chunk))
                         => /\ emitted' = <<Ev(to, "stream_chunk", [chunk |-> chunk])>>
                            /\ new.current_response = old.current_response \o chunk
              /\ \A t \in DriverTools :
                     /\ handle_ai_tool_call(rid, t)
                            => /\ emitted' = <<Ev(to, "tool_call", [name |-> t])>>
                               /\ new.progress =
                                      {[tool |-> t, current |-> 0, total |-> 0, url |-> ""]}
                     /\ handle_ai_tool_executing(rid, t)
                            => emitted' = <<Ev(to, "tool_executing", [name |-> t])>>
                     /\ handle_ai_tool_result(rid, t, TRUE)
                            => emitted' = <<Ev(to, "tool_result", [name |-> t, success |-> TRUE])>>
                     /\ \A c \in Currents, n \in Totals, u \in Urls :
                            handle_ai_tool_progress(rid, t, c, n, u)
                                => /\ emitted' = <<Ev(to, "tool_progress",
                                                      [name |-> t, current |-> c,
                                                       total |-> n, url |-> u])>>
                                   /\ new.progress =
                                          {[tool |-> t, current |-> c, total |-> n, url |-> u]}]_vars

IsPrefix(a, b) == Len(a) <= Len(b) /\ SubSeq(b, 1, Len(a)) = a

\* C22: an observer's disconnect changes no session record; a register with
\* the id of an existing session binds the connection to that session, leaves
\* its record as it is and sends its log as the history; and a session's log
\* only grows, except in a clear_conversation step.
C22_ConversationSurvivesObservers ==
    [][/\ \A sid \in WebSids : handle_disconnect(sid) => UNCHANGED conversations
       /\ \A sid \in WebSids, s \in DOMAIN conversations :
              handle_register_web(sid, s)
                  => /\ conversations'[s] = conversations[s]
                     /\ web_clients'[sid] = s
                     /\ conversations[s].messages # <<>>
                            => \E i \in 1..Len(emitted') :
                                   emitted'[i] = Ev(sid, "conversation_history",
                                                    [messages |-> conversations[s].messages])
       /\ \A s \in DOMAIN conversations :
              /\ s \in DOMAIN conversations'
              /\ \/ IsPrefix(conversations[s].messages, conversations'[s].messages)
                 \/ \E sid \in WebSids : handle_clear(sid, s)]_vars

\* an observer has just registered on a session that has a log and was sent it
C22_Witness ==
    /\ Names(emitted) = <<"registered", "conversation_history">>
    /\ "s1" \in DOMAIN conversations
    /\ Len(conversations["s1"].messages) >= 1
    /\ emitted[2].data.messages = conversations["s1"].messages
    /\ "w1" \in DOMAIN web_clients
    /\ web_clients["w1"] = "s1"

\* C23: a step taken while no driver is registered adds no entry to a pending
\* table and dispatches nothing to a driver: a delegated send is answered by
\* an error and stream_end in the same step, and a server-driven round for a
\* driver-executed tool gets an error tool result in the same step.
C23_NoCorrelationWithoutDriver ==
    [][extensions = <<>> =>
          /\ DOMAIN pending_tool_requests' \subseteq DOMAIN pending_tool_requests
          /\ DOMAIN pending_ai_requests' \subseteq DOMAIN pending_ai_requests
          /\ DOMAIN pending_pings' \subseteq DOMAIN pending_pings
          /\ Dispatches(emitted') = <<>>
          /\ \A i \in 1..Len(emitted') : emitted'[i].to # "None"
          /\ \A sid \in WebSids, s \in Sessions :
                 (GEMINI_API_KEY = "" /\ ~Busy(s) /\ handle_send_message(sid, s, "hi"))
                     => /\ Has(emitted', "error")
                        /\ emitted'[Len(emitted')].name = "stream_end"
          /\ \A r \in Runs :
                 (/\ run[r].pc = "api"
                  /\ LoopCondition(run[r].tool_calls, run[r].loop_count)
                  /\ RoundTool(run[r].tool_calls) # "serper_search"
                  /\ GeminiReturn(r))
                     => /\ run'[r].pc = "api"
                        /\ emitted'[Len(emitted')] =
                               Ev(run[r].sid, "tool_result",
                                  [name |-> RoundTool(run[r].tool_calls), success |-> FALSE])]_vars

\* no driver is registered and a round for a driver-executed tool has just
\* been answered by an error result, with no correlation created
C23_Witness ==
    /\ extensions = <<>>
    /\ pending_tool_requests = <<>>
    /\ Names(emitted) = <<"tool_executing", "tool_result">>
    /\ emitted[2].data = [name |-> "search_shopee", success |-> FALSE]
    /\ \E r \in Runs : run[r].pc = "api" /\ run[r].loop_count = 1

\* the maximal ';'-free stretches of the query, as pairs of the separator
\* positions around them (0 and Len + 1 stand for the two ends)
Stops(query) == {0, Len(query) + 1} \cup {i \in 1..Len(query) : query[i] = ";"}

\* the stretch between two neighbouring stops without the whitespace at its
\* ends; <<>> when it holds nothing else
Trimmed(query, lo, hi) ==
    LET inked == {i \in (lo + 1)..(hi - 1) : query[i] \notin Whitespace}
    IN  IF inked = {} THEN <<>>
        ELSE SubSeq(query, CHOOSE i \in inked : \A j \in inked : i <= j,
                           CHOOSE i \in inked : \A j \in inked : j <= i)

\* the stops that open a piece which is not empty once trimmed, in order
RECURSIVE Ascending(_)
Ascending(S) ==
    IF S = {} THEN <<>>
    ELSE LET m == CHOOSE i \in S : \A j \in S : i <= j
         IN  <<m>> \o Ascending(S \ {m})

NextStop(query, lo) == CHOOSE i \in Stops(query) : i > lo /\ \A j \in Stops(query) : j > lo => i <= j

Pieces(query) ==
    LET opens == Ascending({lo \in Stops(query) :
                               /\ lo <= Len(query)
                               /\ Trimmed(query, lo, NextStop(query, lo)) # <<>>})
    IN  [k \in 1..Len(opens) |-> Trimmed(query, opens[k], NextStop(query, opens[k]))]

\* the positions of the report's query lines, in order
QueryLines(report) == Ascending({i \in 1..Len(report) : report[i].kind = "query"})

\* the lines of section k after its query line and its rule
Body(report, k) ==
    LET at == QueryLines(report)
    IN  SubSeq(report, at[k] + 2, IF k < Len(at) THEN at[k + 1] - 1 ELSE Len(report))

C25_OneRunPerSession ==
    \A s \in Sessions :
        Cardinality({r \in Runs : Active(r) /\ run[r].session_id = s}) <= 1

\* C26: the step that accepts a send and emits stream_start leaves the session's
\* stream buffer empty, and every step that streams a text chunk to the
\* observer (from the driver or from the completion) appends that chunk to the
\* buffer.
C26_BufferIsTurnStream ==
    [][/\ \A sid \in WebSids, s \in Sessions :
              (~Busy(s) /\ handle_send_message(sid, s, "hi") /\ Has(emitted', "stream_start"))
                  => conversations'[s].current_response = ""
       /\ \A rid \in DOMAIN pending_ai_requests, chunk \in Chunks :
              (handle_ai_stream_chunk(rid, chunk) /\ Has(emitted', "stream_chunk"))
                  => LET s == pending_ai_requests[rid].session_id
                     IN  conversations'[s].current_response =
                             conversations[s].current_response \o chunk
       /\ \A r \in Runs, chunk \in Chunks :
              (GeminiChunk(r, chunk) /\ Has(emitted', "stream_chunk"))
                  => LET s == run[r].session_id
                     IN  conversations'[s].current_response =
                             conversations[s].current_response \o chunk]_vars

\* C27: when the issuer of a correlation stops waiting while its entry in the
\* pending table is completed, it returns the entry's result (the step is the
\* one of AiReturn or ToolReturn), not a timeout.
C27_ResolutionBeatsTimeout ==
    [][\A r \in Runs :
          /\ (/\ run[r].pc = "ai_wait"
              /\ AiRid(r) \in DOMAIN pending_ai_requests
              /\ pending_ai_requests[AiRid(r)].completed
              /\ run'[r].pc # run[r].pc) => AiReturn(r)
          /\ (/\ run[r].pc = "tool"
              /\ ToolRid(r, run[r].loop_count) \in DOMAIN pending_tool_requests
              /\ pending_tool_requests[ToolRid(r, run[r].loop_count)].completed
              /\ run'[r].pc # run[r].pc) => ToolReturn(r)]_vars

\* C28: no lock is held while an event is being emitted to a connection, and a
\* thread suspended in a correlator wait holds no lock.
C28_NoLockAcrossEmitOrWait ==
    /\ emitted # <<>> => held = {}
    /\ \A r \in Runs : Waiting(r) => run[r].locks = {}

\* C29: every record of the conversation store has all of its fields
\* (messages, processing, current_response, progress, last_activity).
C29_RecordsComplete ==
    \A s \in DOMAIN conversations : conversations[s].keys = AllKeys

\* a connection that is not the driver requests are dispatched to: an
\* observer's connection, or a registered driver that is not the active one
Outsider(sid) ==
    \/ sid \in DOMAIN web_clients
    \/ InSeq(extensions, sid) /\ sid # get_active_extension

\* C30: a tool_result, ai_stream_chunk, ai_response_complete or
\* ai_response_error event for a pending correlation id that is sent by an
\* observer connection or by a driver connection that is not the active one
\* leaves the correlation tables and the session records as they are.
C30_OnlyDispatchedDriverResolves ==
    [][\A sid \in Sids :
          Outsider(sid) =>
              /\ \A rid \in DOMAIN pending_tool_requests, res \in Results :
                     tool_result_from(sid, rid, res)
                         => UNCHANGED <<pending_tool_requests, conversations>>
              /\ \A rid \in DOMAIN pending_ai_requests :
                     (\/ \E chunk \in Chunks : ai_stream_chunk_from(sid, rid, chunk)
                      \/ ai_response_complete_from(sid, rid)
                      \/ ai_response_error_from(sid, rid))
                         => UNCHANGED <<pending_ai_requests, conversations>>]_vars

\* the events of a turn that an observer is sent
TurnEvents ==
    {"stream_chunk", "tool_call", "tool_executing", "tool_result", "tool_progress",
     "error", "stream_end"}

\* a step of the turn of thread r: a step of the thread, or the handler of a
\* driver's event for the turn's correlation
TurnStep(r) ==
    \/ Delegated(r)
    \/ ServerDriven(r)
    \/ \E chunk \in Chunks : handle_ai_stream_chunk(AiRid(r), chunk)
    \/ \E t \in DriverTools : handle_ai_tool_call(AiRid(r), t)
    \/ \E t \in DriverTools : handle_ai_tool_executing(AiRid(r), t)
    \/ \E t \in DriverTools : handle_ai_tool_result(AiRid(r), t, TRUE)
    \/ \E t \in DriverTools, c \in Currents, n \in Totals, u \in Urls :
           handle_ai_tool_progress(AiRid(r), t, c, n, u)
    \/ handle_ai_response_error(AiRid(r))

\* C31: once the connection that sent a turn's message has disconnected and
\* an observer has registered with the session's id on another connection,
\* every event of the turn (chunks, tool events, error, stream_end) is sent to
\* a connection registered with the session.
C31_ReconnectedObserverFollows ==
    [][\A r \in Runs :
          LET bound == {w \in DOMAIN web_clients : web_clients[w] = run[r].session_id}
          IN  (/\ Active(r)
               /\ run[r].sid \notin DOMAIN web_clients
               /\ bound # {}
               /\ TurnStep(r))
                  => \A i \in 1..Len(emitted') :
                         emitted'[i].name \in TurnEvents => emitted'[i].to \in bound]_vars

====
